---- MODULE Spec2Model ----
(***************************************************************************)
(* A model of rsg43/chess-board: the Chessboard class of src/chess.py      *)
(* (setup_piece, take_turn, get_coordinates_from_player,                   *)
(* validate_coordinates, validate_move) driven by main() of src/example.py *)
(* (two setup_piece calls, then the turn loop).                            *)
(*                                                                         *)
(* A coordinate text is a sequence of one-character strings, so that       *)
(* len(), indexing, strip() and lower() are modelled by what they do.      *)
(* A Python exception that escapes a call is an outcome "ValueError" or    *)
(* "NotImplementedError"; main() catches nothing, so it ends the process.  *)
(***************************************************************************)
EXTENDS Integers, Sequences, FiniteSets, TLC

VARIABLES
    board,   \* Chessboard.board (chess.py 112-114): board[y][x], a Piece or None
    turns,   \* main(): the counter of successful turns (example.py 11, 22)
    colour,  \* main(): the side asked in the latest pass (example.py 13-16)
    pc,      \* main(): "setup1", "setup2" (lines 6, 7), "loop" (12-22),
             \* "done" (23-24), "crashed" (an exception left main())
    last     \* the latest setup_piece or take_turn call: its arguments, the
             \* notations it read, what it returned or raised, its last message

vars == <<board, turns, colour, pc, last>>

----------------------------------------------------------------------------
\* Bounds of the exploration (not program constants).

\* Successful turns explored in the driver loop (the program's own limit is
\* TurnLimit).
MaxTurns == 2

\* The longest text validate_coordinates is examined on.
MaxTextLen == 3

\* The squares the explored inputs name: files c..e, ranks 2..4.
RegionFiles == {"c", "d", "e"}
RegionRanks == {"2", "3", "4"}

----------------------------------------------------------------------------
\* Program constants.

BoardSize == 8
TurnLimit == 200

Idx == 0 .. (BoardSize - 1)

X_NOTATION_TO_INT ==
    [c \in {"a", "b", "c", "d", "e", "f", "g", "h"} |->
        CASE c = "a" -> 0 [] c = "b" -> 1 [] c = "c" -> 2 [] c = "d" -> 3
          [] c = "e" -> 4 [] c = "f" -> 5 [] c = "g" -> 6 [] c = "h" -> 7]

\* Y_NOTATION_TO_INT with the ranks counted from the top row: "1" is 0
Y_NOTATION_TO_INT_upright ==
    [c \in {"1", "2", "3", "4", "5", "6", "7", "8"} |->
        CASE c = "1" -> 0 [] c = "2" -> 1 [] c = "3" -> 2 [] c = "4" -> 3
          [] c = "5" -> 4 [] c = "6" -> 5 [] c = "7" -> 6 [] c = "8" -> 7]

Y_NOTATION_TO_INT ==
    [c \in {"1", "2", "3", "4", "5", "6", "7", "8"} |->
        CASE c = "1" -> 7 [] c = "2" -> 6 [] c = "3" -> 5 [] c = "4" -> 4
          [] c = "5" -> 3 [] c = "6" -> 2 [] c = "7" -> 1 [] c = "8" -> 0]

INT_TO_X_NOTATION ==
    [v \in {X_NOTATION_TO_INT[k] : k \in DOMAIN X_NOTATION_TO_INT} |->
        CHOOSE k \in DOMAIN X_NOTATION_TO_INT : X_NOTATION_TO_INT[k] = v]

INT_TO_Y_NOTATION ==
    [v \in {Y_NOTATION_TO_INT[k] : k \in DOMAIN Y_NOTATION_TO_INT} |->
        CHOOSE k \in DOMAIN Y_NOTATION_TO_INT : Y_NOTATION_TO_INT[k] = v]

Colour == {"White", "Black"}

PieceType == {"Pawn", "Rook", "Knight", "Bishop", "Queen", "King"}

\* Piece(colour=..., piece_type=...); None is the empty cell.
Piece == [colour : Colour, piece_type : PieceType]

None == [colour |-> "None", piece_type |-> "None"]

MkPiece(c, t) == [colour |-> c, piece_type |-> t]

\* Chessboard.__init__: an 8x8 grid of None, indexed board[y][x].
EmptyBoard == [y \in Idx |-> [x \in Idx |-> None]]

\* The texts printed by take_turn and the messages of the exceptions.
MsgNoPiece == "No piece at that position"
MsgOpponent == "You cannot move your opponent's piece"
MsgOwnPiece == "You cannot move to a position occupied by your own piece"
MsgSamePosition == "You must move the piece to a different position"
MsgInvalidMove == "Invalid move for this piece"
MsgMoved == "Moved"
MsgInvalidCoordinates == "Invalid coordinates"
MsgNotImplemented == "Validation not implemented"
MsgInvalidPieceType == "Invalid piece type"
MsgInvalidColour == "Invalid colour"
MsgOccupied == "Position already occupied"

----------------------------------------------------------------------------
\* Python helpers.

Abs(n) == IF n < 0 THEN -n ELSE n

Min(a, b) == IF a < b THEN a ELSE b

\* list(range(a, b))
Range(a, b) == [i \in 1 .. (IF b > a THEN b - a ELSE 0) |-> a + i - 1]

\* list(zip(xs, ys)): as long as the shorter list
Zip(xs, ys) == [i \in 1 .. Min(Len(xs), Len(ys)) |-> <<xs[i], ys[i]>>]

\* str.strip(): leading and trailing blanks removed
RECURSIVE Strip(_)
Strip(s) ==
    IF s = <<>> THEN s
    ELSE IF Head(s) = " " THEN Strip(Tail(s))
    ELSE IF s[Len(s)] = " " THEN Strip(SubSeq(s, 1, Len(s) - 1))
    ELSE s

\* str.lower() on the letters the explored inputs use
LowerChar(c) ==
    CASE c = "A" -> "a" [] c = "B" -> "b" [] c = "C" -> "c" [] c = "D" -> "d"
      [] c = "E" -> "e" [] c = "F" -> "f" [] c = "G" -> "g" [] c = "H" -> "h"
      [] c = "I" -> "i"
      [] OTHER -> c

Lower(s) == [i \in 1 .. Len(s) |-> LowerChar(s[i])]

----------------------------------------------------------------------------
\* validate_coordinates with the length test "len(coords) < 2": a longer text
\* passes on its first two characters
validate_coordinates_prefix(coords) ==
    IF Len(coords) < 2 THEN FALSE
    ELSE IF coords[1] \notin DOMAIN X_NOTATION_TO_INT THEN FALSE
    ELSE IF coords[2] \notin DOMAIN Y_NOTATION_TO_INT THEN FALSE
    ELSE TRUE

\* Chessboard.validate_coordinates
validate_coordinates(coords) ==
    IF Len(coords) # 2 THEN FALSE
    ELSE IF coords[1] \notin DOMAIN X_NOTATION_TO_INT THEN FALSE
    ELSE IF coords[2] \notin DOMAIN Y_NOTATION_TO_INT THEN FALSE
    ELSE TRUE

\* knight_rule with abs() forgotten on the file offset
knight_rule_signed(x, y, new_x, new_y) ==
    \/ (x - new_x = 2 /\ Abs(y - new_y) = 1)
    \/ (Abs(x - new_x) = 1 /\ Abs(y - new_y) = 2)

\* Chessboard.validate_move, the Knight arm
knight_rule(x, y, new_x, new_y) ==
    \/ (Abs(x - new_x) = 2 /\ Abs(y - new_y) = 1)
    \/ (Abs(x - new_x) = 1 /\ Abs(y - new_y) = 2)

\* bishop_path with the ranges closed at the far end, so that the path takes
\* in an end square
bishop_path_closed(x, y, new_x, new_y) ==
    LET xs == IF x < new_x /\ y < new_y
              THEN Range(x + 1, new_x + 1) ELSE Range(new_x + 1, x + 1)
        ys == IF x < new_x /\ y < new_y
              THEN Range(y + 1, new_y + 1) ELSE Range(new_y + 1, y + 1)
    IN  Zip(xs, ys)

\* The squares <<x, y>> the Bishop arm of validate_move looks at
bishop_path(x, y, new_x, new_y) ==
    LET xs == IF x < new_x /\ y < new_y
              THEN Range(x + 1, new_x) ELSE Range(new_x + 1, x)
        ys == IF x < new_x /\ y < new_y
              THEN Range(y + 1, new_y) ELSE Range(new_y + 1, y)
    IN  Zip(xs, ys)

\* bishop_rule with the shape test "neither along a file nor along a rank"
bishop_rule_oblique(b, x, y, new_x, new_y) ==
    IF x = new_x \/ y = new_y THEN FALSE
    ELSE LET path == bishop_path(x, y, new_x, new_y)
         IN  IF \E i \in DOMAIN path : b[path[i][2]][path[i][1]] # None
             THEN FALSE
             ELSE TRUE

\* Chessboard.validate_move, the Bishop arm
bishop_rule(b, x, y, new_x, new_y) ==
    IF ~(Abs(x - new_x) = Abs(y - new_y)) THEN FALSE
    ELSE LET path == bishop_path(x, y, new_x, new_y)
         IN  IF \E i \in DOMAIN path : b[path[i][2]][path[i][1]] # None
             THEN FALSE
             ELSE TRUE

\* validate_move with a plain False for the kinds without a rule
validate_move_quiet(b, piece, x, y, new_x, new_y) ==
    IF piece.piece_type = "Knight"
    THEN (IF knight_rule(x, y, new_x, new_y) THEN "True" ELSE "False")
    ELSE IF piece.piece_type = "Bishop"
    THEN (IF bishop_rule(b, x, y, new_x, new_y) THEN "True" ELSE "False")
    ELSE "False"

\* Chessboard.validate_move: "True", "False", or the exception it raises
validate_move(b, piece, x, y, new_x, new_y) ==
    IF piece.piece_type = "Knight"
    THEN (IF knight_rule(x, y, new_x, new_y) THEN "True" ELSE "False")
    ELSE IF piece.piece_type = "Bishop"
    THEN (IF bishop_rule(b, x, y, new_x, new_y) THEN "True" ELSE "False")
    ELSE "NotImplementedError"

----------------------------------------------------------------------------
\* What a call leaves behind: its return value or exception, the text it
\* printed last (or the exception's message), the board, and the notations
\* it read (NoInput when it did not read one).
NoInput == <<"-">>

Outcome(ret, msg, b, src, dst) ==
    [ret |-> ret, msg |-> msg, board |-> b, src |-> src, dst |-> dst]

\* setup_piece without the check that the cell is free
setup_piece_overwrite(b, piece_type, c, coord) ==
    IF piece_type \notin PieceType
    THEN Outcome("ValueError", MsgInvalidPieceType, b, coord, NoInput)
    ELSE IF c \notin Colour
    THEN Outcome("ValueError", MsgInvalidColour, b, coord, NoInput)
    ELSE IF ~validate_coordinates(coord)
    THEN Outcome("ValueError", MsgInvalidCoordinates, b, coord, NoInput)
    ELSE LET x == X_NOTATION_TO_INT[coord[1]]
             y == Y_NOTATION_TO_INT[coord[2]]
         IN  Outcome("None", "", [b EXCEPT ![y][x] = MkPiece(c, piece_type)],
                     coord, NoInput)

\* setup_piece with the two indices exchanged: board[x][y]
setup_piece_transposed(b, piece_type, c, coord) ==
    IF piece_type \notin PieceType
    THEN Outcome("ValueError", MsgInvalidPieceType, b, coord, NoInput)
    ELSE IF c \notin Colour
    THEN Outcome("ValueError", MsgInvalidColour, b, coord, NoInput)
    ELSE IF ~validate_coordinates(coord)
    THEN Outcome("ValueError", MsgInvalidCoordinates, b, coord, NoInput)
    ELSE LET x == X_NOTATION_TO_INT[coord[1]]
             y == Y_NOTATION_TO_INT[coord[2]]
         IN  IF b[x][y] # None
             THEN Outcome("ValueError", MsgOccupied, b, coord, NoInput)
             ELSE Outcome("None", "", [b EXCEPT ![x][y] = MkPiece(c, piece_type)],
                          coord, NoInput)

\* Chessboard.setup_piece
setup_piece(b, piece_type, c, coord) ==
    IF piece_type \notin PieceType
    THEN Outcome("ValueError", MsgInvalidPieceType, b, coord, NoInput)
    ELSE IF c \notin Colour
    THEN Outcome("ValueError", MsgInvalidColour, b, coord, NoInput)
    ELSE IF ~validate_coordinates(coord)
    THEN Outcome("ValueError", MsgInvalidCoordinates, b, coord, NoInput)
    ELSE LET x == X_NOTATION_TO_INT[coord[1]]
             y == Y_NOTATION_TO_INT[coord[2]]
         IN  IF b[y][x] # None
             THEN Outcome("ValueError", MsgOccupied, b, coord, NoInput)
             ELSE Outcome("None", "", [b EXCEPT ![y][x] = MkPiece(c, piece_type)],
                          coord, NoInput)

\* The notation get_coordinates_from_player checks: input().strip().lower()
notation_of(raw) == Lower(Strip(raw))

\* move_piece with the source left as it was
move_piece_copy(b, piece, x, y, new_x, new_y) ==
    [b EXCEPT ![new_y][new_x] = piece]

\* take_turn, lines 208-209: the piece is written to the destination, then
\* the source is cleared
move_piece(b, piece, x, y, new_x, new_y) ==
    LET b1 == [b EXCEPT ![new_y][new_x] = piece]
    IN  [b1 EXCEPT ![y][x] = None]

\* take_turn_validated with the move made before validate_move is asked
take_turn_validated_late(b, piece, x, y, new_x, new_y, src, dst) ==
    LET moved == move_piece(b, piece, x, y, new_x, new_y)
        v == validate_move(b, piece, x, y, new_x, new_y)
    IN  IF v = "NotImplementedError"
        THEN Outcome("NotImplementedError", MsgNotImplemented, moved, src, dst)
        ELSE IF v = "False"
        THEN Outcome("False", MsgInvalidMove, moved, src, dst)
        ELSE Outcome("True", MsgMoved, moved, src, dst)

\* take_turn, lines 204-215: validate_move, then the move
take_turn_validated(b, piece, x, y, new_x, new_y, src, dst) ==
    LET v == validate_move(b, piece, x, y, new_x, new_y)
    IN  IF v = "NotImplementedError"
        THEN Outcome("NotImplementedError", MsgNotImplemented, b, src, dst)
        ELSE IF v = "False"
        THEN Outcome("False", MsgInvalidMove, b, src, dst)
        ELSE Outcome("True", MsgMoved,
                     move_piece(b, piece, x, y, new_x, new_y), src, dst)

\* take_turn_destination with validate_move asked before the two destination
\* checks
take_turn_destination_validate_first(b, c, piece, x, y, src, raw2) ==
    LET dst == notation_of(raw2)
    IN  IF ~validate_coordinates(dst)
        THEN Outcome("ValueError", MsgInvalidCoordinates, b, src, dst)
        ELSE
        LET new_x == X_NOTATION_TO_INT[dst[1]]
            new_y == Y_NOTATION_TO_INT[dst[2]]
            new_position == b[new_y][new_x]
            o == take_turn_validated(b, piece, x, y, new_x, new_y, src, dst)
        IN  IF o.ret # "True"
            THEN o
            ELSE IF new_position # None /\ c = new_position.colour
            THEN Outcome("False", MsgOwnPiece, b, src, dst)
            ELSE IF <<new_x, new_y>> = <<x, y>>
            THEN Outcome("False", MsgSamePosition, b, src, dst)
            ELSE o

\* take_turn_destination without the own-piece check of lines 197-199
take_turn_destination_friendly(b, c, piece, x, y, src, raw2) ==
    LET dst == notation_of(raw2)
    IN  IF ~validate_coordinates(dst)
        THEN Outcome("ValueError", MsgInvalidCoordinates, b, src, dst)
        ELSE
        LET new_x == X_NOTATION_TO_INT[dst[1]]
            new_y == Y_NOTATION_TO_INT[dst[2]]
        IN  IF <<new_x, new_y>> = <<x, y>>
            THEN Outcome("False", MsgSamePosition, b, src, dst)
            ELSE take_turn_validated(b, piece, x, y, new_x, new_y, src, dst)

\* take_turn_destination without the two destination checks of lines 197-202
take_turn_destination_unchecked(b, c, piece, x, y, src, raw2) ==
    LET dst == notation_of(raw2)
    IN  IF ~validate_coordinates(dst)
        THEN Outcome("ValueError", MsgInvalidCoordinates, b, src, dst)
        ELSE
        LET new_x == X_NOTATION_TO_INT[dst[1]]
            new_y == Y_NOTATION_TO_INT[dst[2]]
        IN  take_turn_validated(b, piece, x, y, new_x, new_y, src, dst)

\* take_turn, lines 194-215: the second input, the destination checks, then
\* validate_move and the move
take_turn_destination(b, c, piece, x, y, src, raw2) ==
    LET dst == notation_of(raw2)
    IN  IF ~validate_coordinates(dst)
        THEN Outcome("ValueError", MsgInvalidCoordinates, b, src, dst)
        ELSE
        LET new_x == X_NOTATION_TO_INT[dst[1]]
            new_y == Y_NOTATION_TO_INT[dst[2]]
            new_position == b[new_y][new_x]
        IN  IF new_position # None /\ c = new_position.colour
            THEN Outcome("False", MsgOwnPiece, b, src, dst)
            ELSE IF <<new_x, new_y>> = <<x, y>>
            THEN Outcome("False", MsgSamePosition, b, src, dst)
            ELSE take_turn_validated(b, piece, x, y, new_x, new_y, src, dst)

\* take_turn with both inputs asked for before the source checks
take_turn_eager(b, c, raw1, raw2) ==
    LET src == notation_of(raw1)
        dst == notation_of(raw2)
    IN  IF ~validate_coordinates(src)
        THEN Outcome("ValueError", MsgInvalidCoordinates, b, src, NoInput)
        ELSE IF ~validate_coordinates(dst)
        THEN Outcome("ValueError", MsgInvalidCoordinates, b, src, dst)
        ELSE
        LET x == X_NOTATION_TO_INT[src[1]]
            y == Y_NOTATION_TO_INT[src[2]]
            piece == b[y][x]
        IN  IF piece = None
            THEN Outcome("False", MsgNoPiece, b, src, dst)
            ELSE IF piece.colour # c
            THEN Outcome("False", MsgOpponent, b, src, dst)
            ELSE take_turn_destination(b, c, piece, x, y, src, raw2)

\* Chessboard.take_turn with the two texts the player would type; the second
\* is read only when the source checks pass
take_turn(b, c, raw1, raw2) ==
    LET src == notation_of(raw1)
    IN  IF ~validate_coordinates(src)
        THEN Outcome("ValueError", MsgInvalidCoordinates, b, src, NoInput)
        ELSE
        LET x == X_NOTATION_TO_INT[src[1]]
            y == Y_NOTATION_TO_INT[src[2]]
            piece == b[y][x]
        IN  IF piece = None
            THEN Outcome("False", MsgNoPiece, b, src, NoInput)
            ELSE IF piece.colour # c
            THEN Outcome("False", MsgOpponent, b, src, NoInput)
            ELSE take_turn_destination(b, c, piece, x, y, src, raw2)

----------------------------------------------------------------------------
\* main() of example.py.

\* The side main() asks: lines 13-16
side_to_move(t) == IF t % 2 = 0 THEN "White" ELSE "Black"

\* turns_after without the "continue"
turns_after_always(t, ret) == t + 1

\* The counter after one pass of the loop body: "continue" on False, else
\* turns += 1
turns_after(t, ret) == IF ret # "True" THEN t ELSE t + 1

\* The inputs explored.
RegionTexts == {<<f, r>> : f \in RegionFiles, r \in RegionRanks}

BadTexts == {<<"i", "9">>, <<"e">>}

\* every PieceType and Colour, and a value that is neither
SetupKinds == PieceType \cup {"Dragon"}
SetupColours == Colour \cup {"Green"}
SetupTexts == RegionTexts \cup BadTexts

\* what a player may type: a square, a malformed text, or a square in upper
\* case with blanks around it
TurnTexts == RegionTexts \cup BadTexts \cup {<<" ", "D", "3", " ">>}

\* the second text matters only to a call that reads it: one stands for all
\* when the call ends at the source checks
SecondTexts(b, c, raw1, texts) ==
    IF take_turn(b, c, raw1, <<>>).dst = NoInput THEN {<<>>} ELSE texts

Call(op, c, t, o) ==
    [op |-> op, colour |-> c, piece_type |-> t, src |-> o.src, dst |-> o.dst,
     ret |-> o.ret, msg |-> o.msg]

NoCall ==
    [op |-> "-", colour |-> "-", piece_type |-> "-", src |-> NoInput,
     dst |-> NoInput, ret |-> "-", msg |-> ""]

Init ==
    /\ board = EmptyBoard
    /\ turns = 0
    /\ colour = "-"
    /\ pc = "setup1"
    /\ last = NoCall

\* main(), lines 6 and 7: a setup_piece call with arguments from the given
\* sets; a ValueError ends the process
SetupWith(kinds, colours, texts) ==
    /\ pc \in {"setup1", "setup2"}
    /\ \E t \in kinds, c \in colours, coord \in texts :
         \E o \in {setup_piece(board, t, c, coord)} :
           /\ board' = o.board
           /\ last' = Call("setup_piece", c, t, o)
           /\ pc' = IF o.ret = "ValueError" THEN "crashed"
                    ELSE IF pc = "setup1" THEN "setup2" ELSE "loop"
    /\ UNCHANGED <<turns, colour>>

Setup == SetupWith(SetupKinds, SetupColours, SetupTexts)

\* main(), lines 12-22: one pass of the loop body, with the players' texts
\* from the given set
TurnWith(texts) ==
    /\ pc = "loop"
    /\ turns < TurnLimit
    /\ turns < MaxTurns
    /\ \E c \in {side_to_move(turns)} :
         \E raw1 \in texts :
           \E raw2 \in SecondTexts(board, c, raw1, texts) :
             \E o \in {take_turn(board, c, raw1, raw2)} :
               /\ colour' = c
               /\ board' = o.board
               /\ last' = Call("take_turn", c, "-", o)
               /\ turns' = turns_after(turns, o.ret)
               /\ pc' = IF o.ret \in {"ValueError", "NotImplementedError"}
                        THEN "crashed" ELSE "loop"

Turn == TurnWith(TurnTexts)

\* main(), lines 12 and 23-24: the loop ends at the turn limit
Finish ==
    /\ pc = "loop"
    /\ ~(turns < TurnLimit)
    /\ pc' = "done"
    /\ UNCHANGED <<board, turns, colour, last>>

Next == Setup \/ Turn

Spec == Init /\ [][Next]_vars

\* The boards validate_move is examined on: the two setup calls alone, with
\* the two kinds validate_move has a rule for, in both colours, on the squares
\* of the region.
BoardKinds == {"Knight", "Bishop"}

SetupBoard == SetupWith(BoardKinds, Colour, RegionTexts)

NextBoard == SetupBoard

SpecBoard == Init /\ [][NextBoard]_vars

\* The setup calls of main() alone, with every argument explored.
NextSetup == Setup

SpecSetup == Init /\ [][NextSetup]_vars

\* The game of example.py: main() with the arguments of its own two setup
\* calls, a White Bishop on "e2" then a Black Knight on "d3", and players
\* who may type any square of the board or a malformed text.
BoardTexts ==
    {<<f, r>> : f \in DOMAIN X_NOTATION_TO_INT, r \in DOMAIN Y_NOTATION_TO_INT}

ExampleTexts == BoardTexts \cup BadTexts

SetupExample ==
    \/ pc = "setup1" /\ SetupWith({"Bishop"}, {"White"}, {<<"e", "2">>})
    \/ pc = "setup2" /\ SetupWith({"Knight"}, {"Black"}, {<<"d", "3">>})

TurnExample == TurnWith(ExampleTexts)

NextExample == SetupExample \/ TurnExample

SpecExample == Init /\ [][NextExample]_vars

----------------------------------------------------------------------------
\* Vocabulary of the properties.

Sign(n) == IF n < 0 THEN -1 ELSE IF n > 0 THEN 1 ELSE 0

\* <<x, y, new_x, new_y>>: every pair of squares, and those on one diagonal
\* at least two steps apart
SquarePairs == Idx \X Idx \X Idx \X Idx

DiagonalPairs ==
    {p \in SquarePairs :
        Abs(p[3] - p[1]) = Abs(p[4] - p[2]) /\ Abs(p[3] - p[1]) >= 2}

\* the squares <<x, y>> strictly between two squares of one diagonal
Between(x, y, new_x, new_y) ==
    {<<x + k * Sign(new_x - x), y + k * Sign(new_y - y)>> :
        k \in 1 .. (Abs(new_x - x) - 1)}

Occupied(b, sq) == b[sq[2]][sq[1]] # None

WhiteBishop == MkPiece("White", "Bishop")

\* C1: on every board, for every two squares of one diagonal at least two
\* steps apart, in each of the four directions: when a square strictly
\* between them is occupied, validate_move for a Bishop returns False,
\* whatever the destination holds.
C1_BlockedBishopIsRejected ==
    \A p \in DiagonalPairs :
        (\E sq \in Between(p[1], p[2], p[3], p[4]) : Occupied(board, sq))
            => validate_move(board, WhiteBishop, p[1], p[2], p[3], p[4]) = "False"

\* the board with every cell off the squares sqs emptied
OnlySquares(b, sqs) ==
    [y \in Idx |-> [x \in Idx |-> IF <<x, y>> \in sqs THEN b[y][x] ELSE None]]

\* C2: on every board and for every from # to, validate_move for a Bishop
\* returns False when |dfile| # |drank|, returns True when |dfile| = |drank|
\* and every square strictly between the two is empty, and returns what it
\* returns on the board that keeps only the squares strictly between them:
\* the source, the destination and the squares off the segment do not count.
C2_BishopShapeAndFrame ==
    \A p \in SquarePairs :
        LET x == p[1]
            y == p[2]
            new_x == p[3]
            new_y == p[4]
            seg == Between(x, y, new_x, new_y)
            r == validate_move(board, WhiteBishop, x, y, new_x, new_y)
        IN  <<x, y>> # <<new_x, new_y>> =>
              IF Abs(new_x - x) # Abs(new_y - y) THEN r = "False"
              ELSE /\ (\A sq \in seg : ~Occupied(board, sq)) => r = "True"
                   /\ r = validate_move(OnlySquares(board, seg), WhiteBishop,
                                        x, y, new_x, new_y)

\* C2's case: a diagonal of two steps or more with an empty path, an occupied
\* destination and an occupied source, which validate_move accepts.
C2_Witness ==
    \E p \in DiagonalPairs :
        /\ Occupied(board, <<p[1], p[2]>>)
        /\ Occupied(board, <<p[3], p[4]>>)
        /\ validate_move(board, WhiteBishop, p[1], p[2], p[3], p[4]) = "True"

\* the eight L-shaped offsets <<dfile, drank>>
KnightOffsets ==
    {<<1, 2>>, <<2, 1>>, <<-1, 2>>, <<-2, 1>>,
     <<1, -2>>, <<2, -1>>, <<-1, -2>>, <<-2, -1>>}

\* C3: on every board and for every two squares, validate_move for a Knight
\* of either colour returns True when the offset is one of the eight L-shaped
\* offsets and False for every other offset, <<0, 0>> included.
C3_KnightOffsets ==
    \A p \in SquarePairs : \A c \in Colour :
        validate_move(board, MkPiece(c, "Knight"), p[1], p[2], p[3], p[4])
            = IF <<p[3] - p[1], p[4] - p[2]>> \in KnightOffsets
              THEN "True" ELSE "False"

\* C3's case: a Knight move c2 -> d4 over and onto occupied squares (c3 and
\* d4 hold pieces) is accepted.
C3_Witness ==
    /\ Occupied(board, <<2, 5>>)
    /\ Occupied(board, <<3, 4>>)
    /\ validate_move(board, MkPiece("Black", "Knight"), 2, 6, 3, 4) = "True"
    /\ validate_move(board, MkPiece("Black", "Knight"), 2, 6, 2, 6) = "False"

----------------------------------------------------------------------------
\* Properties of take_turn and of the loop of main(). In a step of the loop
\* last' is the take_turn call the step made and board is the board the call
\* started from.

XOf(n) == X_NOTATION_TO_INT[n[1]]
YOf(n) == Y_NOTATION_TO_INT[n[2]]

\* the cell a valid notation names
At(b, n) == b[YOf(n)][XOf(n)]

Unimplemented == {"Pawn", "Rook", "Queen", "King"}

\* a step of the loop: one take_turn call
TurnStep == pc = "loop" /\ last'.op = "take_turn"

\* the call of the step read a valid source and a valid destination
ReadBoth ==
    /\ validate_coordinates(last'.src)
    /\ validate_coordinates(last'.dst)

\* C4: a take_turn call that does not return True (it returned False for any
\* of the rejections, or raised ValueError or NotImplementedError) leaves
\* every cell of the board as it was.
C4_FailedTurnKeepsBoard ==
    [][(TurnStep /\ last'.ret # "True") => board' = board]_vars

\* C4's case: a move the validator rejected, made after a successful turn.
C4_Witness ==
    /\ last.op = "take_turn"
    /\ last.ret = "False"
    /\ last.msg = MsgInvalidMove
    /\ turns = 1

\* C5: a turn whose source holds a piece of the side to move and whose
\* destination is the source is rejected with "You must move the piece to a
\* different position".
C5_NullMoveReason ==
    (/\ last.op = "take_turn"
     /\ validate_coordinates(last.src)
     /\ last.dst = last.src)
        => (last.ret = "False" /\ last.msg = MsgSamePosition)

\* C6: a turn with a piece of a kind without a rule onto a square held by
\* the mover's own piece, or onto the source itself, returns False; it does
\* not raise NotImplementedError, and the loop goes on.
C6_ChecksBeforeValidator ==
    [][(/\ TurnStep
        /\ ReadBoth
        /\ At(board, last'.src).piece_type \in Unimplemented
        /\ \/ At(board, last'.dst).colour = last'.colour
           \/ last'.dst = last'.src)
          => (last'.ret = "False" /\ pc' = "loop")]_vars

\* C6's case: a piece of a kind without a rule was sent onto another square
\* held by a piece of its own colour, and the call returned False.
C6_Witness ==
    /\ last.op = "take_turn"
    /\ last.ret = "False"
    /\ validate_coordinates(last.dst)
    /\ last.dst # last.src
    /\ At(board, last.src).piece_type \in Unimplemented
    /\ At(board, last.dst).colour = last.colour

\* C7: after a take_turn call that returns True the source cell is empty,
\* the destination cell holds the piece that stood on the source, and every
\* other cell is as it was.
C7_MoveFrame ==
    [][(TurnStep /\ last'.ret = "True") =>
          /\ At(board', last'.src) = None
          /\ At(board', last'.dst) = At(board, last'.src)
          /\ At(board, last'.src) # None
          /\ \A y \in Idx : \A x \in Idx :
                (<<x, y>> # <<XOf(last'.src), YOf(last'.src)>>
                 /\ <<x, y>> # <<XOf(last'.dst), YOf(last'.dst)>>)
                    => board'[y][x] = board[y][x]]_vars

\* the number of pieces on a board
PieceCount(b) == Cardinality({sq \in Idx \X Idx : Occupied(b, sq)})

\* C7's case: a capture, after which one piece is left of the two set up.
C7_Witness ==
    /\ last.op = "take_turn"
    /\ last.ret = "True"
    /\ PieceCount(board) = 1

\* C8: for a piece of kind Pawn, Rook, Queen or King validate_move raises
\* NotImplementedError and returns no boolean: for each such piece on the
\* board, from its square to every square of the board; and a turn with such
\* a piece that passes the source and destination checks ends in
\* NotImplementedError, not in "Invalid move for this piece", with the board
\* as it was.
C8_NoRuleRaises ==
    /\ [](\A y \in Idx : \A x \in Idx :
            board[y][x].piece_type \in Unimplemented =>
                \A new_y \in Idx : \A new_x \in Idx :
                    validate_move(board, board[y][x], x, y, new_x, new_y)
                        = "NotImplementedError")
    /\ [][(/\ TurnStep
           /\ ReadBoth
           /\ At(board, last'.src).piece_type \in Unimplemented
           /\ At(board, last'.src).colour = last'.colour
           /\ At(board, last'.dst).colour # last'.colour
           /\ last'.dst # last'.src)
             => /\ last'.ret = "NotImplementedError"
                /\ last'.msg # MsgInvalidMove
                /\ board' = board]_vars

\* C8's case: a turn with a piece of a kind without a rule onto an empty
\* square ended in NotImplementedError.
C8_Witness ==
    /\ last.op = "take_turn"
    /\ last.ret = "NotImplementedError"
    /\ At(board, last.src).piece_type \in Unimplemented
    /\ At(board, last.dst) = None

\* C9: after a turn that fails with an invalid coordinate text (source or
\* destination) or with NotImplementedError the loop of main() is still
\* running.
C9_FailureIsNotFatal ==
    (last.op = "take_turn" /\ last.ret \in {"ValueError", "NotImplementedError"})
        => pc = "loop"

\* C10: in the loop of main() the side asked is White exactly when the
\* counter of successful turns is even; a call that returns False leaves the
\* counter as it was and the loop running, so that the same side is asked
\* next; a call that returns True adds exactly one to the counter, so that
\* the other side is asked next.
C10_TurnCounter ==
    [][TurnStep =>
          /\ (colour' = "White") <=> (turns % 2 = 0)
          /\ colour' \in Colour
          /\ last'.colour = colour'
          /\ last'.ret = "False" =>
                (turns' = turns /\ pc' = "loop"
                    /\ side_to_move(turns') = colour')
          /\ last'.ret = "True" =>
                (turns' = turns + 1 /\ pc' = "loop"
                    /\ side_to_move(turns') # colour')
          /\ (last.op = "take_turn" /\ last.ret = "False") => colour' = colour
          /\ (last.op = "take_turn" /\ last.ret = "True") => colour' # colour]_vars

\* C10's case: Black was asked after White's successful turn and was
\* rejected; the counter still stands at one.
C10_Witness ==
    /\ last.op = "take_turn"
    /\ last.ret = "False"
    /\ colour = "Black"
    /\ turns = 1
    /\ pc = "loop"

----------------------------------------------------------------------------
\* Properties of setup_piece and of the notation. The notation is stated
\* here by the order of the letters and digits, not by the two tables.

FileLetters == <<"a", "b", "c", "d", "e", "f", "g", "h">>
RankDigits == <<"1", "2", "3", "4", "5", "6", "7", "8">>

PlaceIn(seq, ch) == CHOOSE i \in 1 .. Len(seq) : seq[i] = ch

\* a text of two characters, a file letter then a rank digit
WellFormed(t) ==
    /\ Len(t) = 2
    /\ \E i \in 1 .. Len(FileLetters) : FileLetters[i] = t[1]
    /\ \E i \in 1 .. Len(RankDigits) : RankDigits[i] = t[2]

\* file a..h -> 0..7, rank 1..8 -> 7..0
FileOf(t) == PlaceIn(FileLetters, t[1]) - 1
RankOf(t) == Len(RankDigits) - PlaceIn(RankDigits, t[2])

\* a step of main() that is a setup_piece call
SetupStep == pc \in {"setup1", "setup2"} /\ last'.op = "setup_piece"

\* the arguments of the call of the step name a free cell of the board
SetupAccepted ==
    /\ last'.piece_type \in PieceType
    /\ last'.colour \in Colour
    /\ WellFormed(last'.src)
    /\ board[RankOf(last'.src)][FileOf(last'.src)] = None

\* C11: a setup_piece call whose piece type or colour is no enumeration
\* member, whose text is invalid or whose cell is occupied raises ValueError
\* and leaves every cell as it was; a call with valid arguments on a free
\* cell succeeds, and after it every call on the same text, with any kind
\* and colour, raises and changes nothing.
C11_SetupFailureKeepsBoard ==
    [][SetupStep =>
          /\ ~SetupAccepted => (last'.ret = "ValueError" /\ board' = board)
          /\ last'.ret = "ValueError" => board' = board
          /\ SetupAccepted =>
                /\ last'.ret = "None"
                /\ \A t \in PieceType : \A c \in Colour :
                      /\ setup_piece(board', t, c, last'.src).ret = "ValueError"
                      /\ setup_piece(board', t, c, last'.src).board = board']_vars

\* C11's case: the first call placed a piece and the second call, on the
\* same text, was refused; the one piece is still the first.
C11_Witness ==
    /\ pc = "crashed"
    /\ last.op = "setup_piece"
    /\ last.msg = MsgOccupied
    /\ PieceCount(board) = 1
    /\ At(board, last.src) # None

\* setup_piece(KNIGHT, BLACK, "g6") on the empty board, as in test_setup_piece
SetupG6 == setup_piece(EmptyBoard, "Knight", "Black", <<"g", "6">>)

\* C12: a setup_piece call that succeeds writes Piece(colour, piece_type)
\* into board[rank][file], file a..h being 0..7 and rank 1..8 being 7..0,
\* and changes no other cell; "g6" on the empty board is board[2][6].
C12_SetupWritesOneCell ==
    /\ [](SetupG6.board[2][6] = MkPiece("Black", "Knight"))
    /\ [][(SetupStep /\ last'.ret = "None") =>
             /\ WellFormed(last'.src)
             /\ board'[RankOf(last'.src)][FileOf(last'.src)]
                    = MkPiece(last'.colour, last'.piece_type)
             /\ \A y \in Idx : \A x \in Idx :
                   <<x, y>> # <<FileOf(last'.src), RankOf(last'.src)>>
                       => board'[y][x] = board[y][x]]_vars

\* C12's case: the second call placed a piece on "e4", which is board[4][4].
C12_Witness ==
    /\ pc = "loop"
    /\ last.op = "setup_piece"
    /\ last.ret = "None"
    /\ last.src = <<"e", "4">>
    /\ board[4][4] = MkPiece(last.colour, last.piece_type)
    /\ PieceCount(board) = 2

\* every text of two characters, a file letter then a rank digit
AllTexts ==
    {<<FileLetters[i], RankDigits[j]>> :
        i \in 1 .. Len(FileLetters), j \in 1 .. Len(RankDigits)}

\* the text of the indices, by the two inverse tables
Render(x, y) == <<INT_TO_X_NOTATION[x], INT_TO_Y_NOTATION[y]>>

\* the indices of a text, by the two tables
Parse(t) == <<X_NOTATION_TO_INT[t[1]], Y_NOTATION_TO_INT[t[2]]>>

\* the four tables: text -> indices -> text and indices -> text -> indices
\* are the identity, the 64 texts cover the 64 cells, and the rank is inverted
NotationTables ==
    /\ (DOMAIN X_NOTATION_TO_INT) \X (DOMAIN Y_NOTATION_TO_INT)
          = {<<t[1], t[2]>> : t \in AllTexts}
    /\ DOMAIN INT_TO_X_NOTATION = Idx
    /\ DOMAIN INT_TO_Y_NOTATION = Idx
    /\ \A t \in AllTexts : Render(Parse(t)[1], Parse(t)[2]) = t
    /\ \A x \in Idx : \A y \in Idx : Parse(Render(x, y)) = <<x, y>>
    /\ {Parse(t) : t \in AllTexts} = Idx \X Idx
    /\ \A t \in AllTexts : Parse(t) = <<FileOf(t), RankOf(t)>>
    /\ Parse(<<"a", "1">>) = <<0, 7>>
    /\ Parse(<<"h", "8">>) = <<7, 0>>

\* C13: the notation tables are a bijection between the 64 valid texts and
\* the 64 cells with the rank axis inverted: a text mapped to indices and
\* back is the same text, indices mapped to a text and back are the same
\* indices, "a1" is (file 0, rank 7) and "h8" is (file 7, rank 0); and the
\* cell a successful setup_piece call wrote renders back to the text it got.
C13_NotationBijection ==
    /\ NotationTables
    /\ (last.op = "setup_piece" /\ last.ret = "None") =>
          \A y \in Idx : \A x \in Idx :
              (board[y][x] = MkPiece(last.colour, last.piece_type)
               /\ Render(x, y) = last.src)
                  <=> <<x, y>> = <<FileOf(last.src), RankOf(last.src)>>

\* C13's case: a piece set up on "c2" stands on board[6][2], which renders
\* back to "c2".
C13_Witness ==
    /\ last.op = "setup_piece"
    /\ last.ret = "None"
    /\ last.src = <<"c", "2">>
    /\ board[6][2] # None
    /\ Render(2, 6) = last.src

\* the characters of the texts examined, and the texts
TextChars == {"a", "e", "h", "i", "A", "0", "1", "4", "8", "9", " "}

Texts == UNION {[1 .. n -> TextChars] : n \in 0 .. MaxTextLen}

\* validate_coordinates on the texts: True exactly on the well-formed ones,
\* each of which has indices in 0..7
CoordinatesTable ==
    /\ \A t \in Texts : validate_coordinates(t) <=> WellFormed(t)
    /\ \A t \in Texts : validate_coordinates(t) =>
            (X_NOTATION_TO_INT[t[1]] \in Idx /\ Y_NOTATION_TO_INT[t[2]] \in Idx)
    /\ validate_coordinates(<<"e", "4">>)
    /\ validate_coordinates(<<"h", "8">>)
    /\ ~validate_coordinates(<<"i", "9">>)
    /\ ~validate_coordinates(<<"a", "0">>)
    /\ ~validate_coordinates(<<>>)
    /\ ~validate_coordinates(<<"e">>)
    /\ ~validate_coordinates(<<"e", "4", "4">>)

\* C14: validate_coordinates returns True exactly for the texts of length
\* two made of a file letter a..h and a rank digit 1..8 ("e4", "h8" accepted;
\* "i9", "a0", the empty text and texts of length 1 or 3 rejected), every
\* accepted text has indices in 0..7, and a setup_piece call with a valid
\* kind and colour raises "Invalid coordinates" exactly on the other texts.
C14_ValidateCoordinates ==
    /\ CoordinatesTable
    /\ (/\ last.op = "setup_piece"
        /\ last.piece_type \in PieceType
        /\ last.colour \in Colour)
          => ((last.ret = "ValueError" /\ last.msg = MsgInvalidCoordinates)
                 <=> ~WellFormed(last.src))

\* C14's case: a setup_piece call on "i9" was refused for its coordinates.
C14_Witness ==
    /\ last.op = "setup_piece"
    /\ last.src = <<"i", "9">>
    /\ last.ret = "ValueError"
    /\ last.msg = MsgInvalidCoordinates
    /\ pc = "crashed"

\* the messages take_turn gives only once validate_move has been asked
ValidatorMessages == {MsgInvalidMove, MsgMoved, MsgNotImplemented}

\* C15: a turn whose destination is its source never reaches validate_move:
\* it returns False at one of the two destination checks and the board is
\* unchanged, and no turn that returns True has its destination on its
\* source (so the zero offset the Bishop rule accepts is never applied).
C15_NullMoveNeverValidated ==
    [][TurnStep =>
        /\ (ReadBoth /\ last'.dst = last'.src) =>
              /\ last'.ret = "False"
              /\ last'.msg \in {MsgOwnPiece, MsgSamePosition}
              /\ last'.msg \notin ValidatorMessages
              /\ board' = board
        /\ last'.ret = "True" => last'.dst # last'.src]_vars

\* C15's case: a Bishop was asked to move to its own square, a move its rule
\* would accept, and the turn was rejected with the Bishop still in place.
C15_Witness ==
    /\ last.op = "take_turn"
    /\ validate_coordinates(last.src)
    /\ last.dst = last.src
    /\ last.ret = "False"
    /\ At(board, last.src) # None
    /\ At(board, last.src).piece_type = "Bishop"
    /\ validate_move(board, At(board, last.src), XOf(last.src), YOf(last.src),
                     XOf(last.src), YOf(last.src)) = "True"

\* the source square of the step is empty or holds the other side's piece
SourceRefused ==
    \/ At(board, last'.src) = None
    \/ At(board, last'.src).colour # last'.colour

\* C16: the source checks are hard stops ahead of the second input: a turn
\* whose source text is malformed raises, and one whose source square is
\* empty or holds a piece of the other colour returns False with that
\* reason, in both cases without the destination being asked for and with
\* the board unchanged; the destination is asked for exactly when the source
\* holds a piece of the side to move.
C16_SourceChecksStopFirst ==
    [][TurnStep =>
        /\ ~validate_coordinates(last'.src) =>
              /\ last'.ret = "ValueError"
              /\ last'.dst = NoInput
              /\ board' = board
        /\ (validate_coordinates(last'.src) /\ SourceRefused) =>
              /\ last'.ret = "False"
              /\ last'.msg = IF At(board, last'.src) = None
                              THEN MsgNoPiece ELSE MsgOpponent
              /\ last'.dst = NoInput
              /\ board' = board
        /\ (validate_coordinates(last'.src) /\ ~SourceRefused) =>
              last'.dst # NoInput]_vars

\* C16's case: a turn that named the other side's piece ended without a
\* destination, on a board where that piece stands.
C16_Witness ==
    /\ last.op = "take_turn"
    /\ last.ret = "False"
    /\ last.msg = MsgOpponent
    /\ last.dst = NoInput
    /\ At(board, last.src) # None
    /\ At(board, last.src).colour # last.colour

\* the number of pieces of a colour on a board
CountOf(b, c) ==
    Cardinality({sq \in Idx \X Idx : Occupied(b, sq) /\ b[sq[2]][sq[1]].colour = c})

Opponent(c) == IF c = "White" THEN "Black" ELSE "White"

\* C17: a successful turn by side C moves a piece of colour C onto an empty
\* cell or onto a piece of the other colour: C's count is unchanged, the
\* opponent's count drops by one exactly when the destination held an
\* opposing piece and is otherwise unchanged; and no turn, successful or
\* not, increases the number of pieces on the board.
C17_PieceCounts ==
    [][TurnStep =>
        /\ board' = board \/ PieceCount(board') <= PieceCount(board)
        /\ last'.ret = "True" =>
              /\ At(board, last'.src) # None
              /\ At(board, last'.src).colour = last'.colour
              /\ At(board', last'.dst) = At(board, last'.src)
              /\ \/ At(board, last'.dst) = None
                 \/ At(board, last'.dst).colour = Opponent(last'.colour)
              /\ CountOf(board', last'.colour) = CountOf(board, last'.colour)
              /\ CountOf(board', Opponent(last'.colour))
                    = CountOf(board, Opponent(last'.colour))
                        - (IF At(board, last'.dst) # None THEN 1 ELSE 0)]_vars

\* C17's case: Black captured White's only piece: one Black piece is left
\* and it stands on the destination.
C17_Witness ==
    /\ last.op = "take_turn"
    /\ last.ret = "True"
    /\ last.colour = "Black"
    /\ turns = 2
    /\ CountOf(board, "Black") = 1
    /\ CountOf(board, "White") = 0
    /\ At(board, last.dst).colour = "Black"

\* the colour of a square: (file + rank) mod 2
Parity(x, y) == (x + y) % 2

ParityOf(n) == Parity(XOf(n), YOf(n))

BishopSquares(b) ==
    {sq \in Idx \X Idx : b[sq[2]][sq[1]].piece_type = "Bishop"}

\* C18: every applied Bishop move joins two squares of the same colour and
\* every applied Knight move two squares of opposite colours; hence a turn
\* on a board with a single bishop leaves no bishop on a square of the other
\* colour than the one that bishop stood on.
C18_SquareColour ==
    [][TurnStep =>
        /\ (last'.ret = "True" /\ At(board, last'.src).piece_type = "Bishop")
              => ParityOf(last'.dst) = ParityOf(last'.src)
        /\ (last'.ret = "True" /\ At(board, last'.src).piece_type = "Knight")
              => ParityOf(last'.dst) # ParityOf(last'.src)
        /\ (board' # board /\ Cardinality(BishopSquares(board)) = 1) =>
              \A old \in BishopSquares(board) :
                  \A new \in BishopSquares(board') :
                      Parity(new[1], new[2]) = Parity(old[1], old[2])]_vars

\* C18's case: after two successful turns, the second by a bishop that is
\* the only bishop of the board, that bishop stands on a square of the
\* colour it came from and not on the one it came from.
C18_Witness ==
    /\ last.op = "take_turn"
    /\ last.ret = "True"
    /\ turns = 2
    /\ At(board, last.dst).piece_type = "Bishop"
    /\ BishopSquares(board) = {<<XOf(last.dst), YOf(last.dst)>>}
    /\ last.dst # last.src
    /\ ParityOf(last.dst) = ParityOf(last.src)

\* the side to move has a pair of texts for which take_turn returns True
CanMove(b, c) ==
    \E raw1 \in BoardTexts : \E raw2 \in BoardTexts :
        take_turn(b, c, raw1, raw2).ret = "True"

\* C19: in every state of the example game reached before the turn limit
\* with the loop still running, the side to move has at least one pair of
\* inputs for which take_turn succeeds.
C19_SideToMoveCanMove ==
    (pc = "loop" /\ turns < TurnLimit) => CanMove(board, side_to_move(turns))

====
